---- MODULE Spec2Model ----
(***************************************************************************)
(* Option pricing engines of finllm: the option contract and its           *)
(* construction-time validation, the closed-form Black-Scholes-Merton      *)
(* evaluator, the CRR binomial lattices (American and Bermudan) and the    *)
(* Monte Carlo arithmetic-average Asian evaluator.                         *)
(*                                                                         *)
(* Real numbers are exact rationals <<n, d>> (d > 0, lowest terms).  The   *)
(* transcendental primitives are exact on a grid: Exp(x) is 4^x for x a    *)
(* multiple of 1/2 (an exponential in rescaled units: Exp(0) = 1,          *)
(* Exp(x + y) = Exp(x) * Exp(y), strictly increasing), Sqrt is exact on    *)
(* perfect squares and Log is the inverse of Exp.  The inputs the actions  *)
(* enumerate lie on that grid.  Floating-point rounding is not modelled.   *)
(***************************************************************************)
EXTENDS Integers, Sequences, FiniteSets

VARIABLES obj, out, last, rng, thr

vars == <<obj, out, last, rng, thr>>

(***************************************************************************)
(* Bounds of the model.                                                    *)
(***************************************************************************)
MaxSteps == 2

MaxSeed == 2

MaxSims == 2

MaxMonitor == 1

MaxCalls == 2

(***************************************************************************)
(* Exact rational arithmetic.  NaN (0/0) propagates through every          *)
(* operation, as it does in floating point.                                *)
(***************************************************************************)
\* A function on 1..n as the sequence of its n values.
Tuple(f, n) == SubSeq(f, 1, n)

RECURSIVE GCD(_, _)
GCD(a, b) == IF b = 0 THEN a ELSE GCD(b, a % b)

Abs(n) == IF n < 0 THEN -n ELSE n

NaN == <<0, 0>>

IsNaN(x) == x[2] = 0

R(n, d) ==
    IF d = 0 THEN NaN
    ELSE IF n = 0 THEN <<0, 1>>
    ELSE LET s == IF d < 0 THEN -1 ELSE 1
             g == GCD(Abs(n), Abs(d))
         IN  <<(s * n) \div g, (s * d) \div g>>

Zero == <<0, 1>>

One == <<1, 1>>

Half == <<1, 2>>

RInt(n) == <<n, 1>>

LCM(a, b) == (a \div GCD(a, b)) * b

RAdd(x, y) ==
    IF IsNaN(x) \/ IsNaN(y) THEN NaN
    ELSE IF x[2] = y[2] THEN R(x[1] + y[1], x[2])
    ELSE LET l == LCM(x[2], y[2])
         IN  R(x[1] * (l \div x[2]) + y[1] * (l \div y[2]), l)

RNeg(x) == <<-x[1], x[2]>>

RSub(x, y) == RAdd(x, RNeg(y))

RMul(x, y) ==
    IF IsNaN(x) \/ IsNaN(y) THEN NaN
    ELSE LET a == R(x[1], y[2])
             b == R(y[1], x[2])
         IN  <<a[1] * b[1], a[2] * b[2]>>

RDiv(x, y) ==
    IF IsNaN(x) \/ IsNaN(y) THEN NaN
    ELSE RMul(x, R(y[2], y[1]))

\* Comparisons with NaN are false.
RLe(x, y) ==
    IF IsNaN(x) \/ IsNaN(y) THEN FALSE
    ELSE IF x[2] = y[2] THEN x[1] <= y[1]
    ELSE LET l == LCM(x[2], y[2])
         IN  x[1] * (l \div x[2]) <= y[1] * (l \div y[2])

RLt(x, y) == RLe(x, y) /\ x # y

\* Python's max(x, y) and np.maximum agree on numbers: y if x < y, else x.
RMax(x, y) == IF RLt(x, y) THEN y ELSE x

RECURSIVE RPow(_, _)
RPow(x, k) == IF k = 0 THEN One ELSE RMul(x, RPow(x, k - 1))

(***************************************************************************)
(* Numeric primitives (math.exp, math.sqrt, math.log, scipy norm.cdf,      *)
(* Python round), exact on the grid of the model.                          *)
(***************************************************************************)
Pow2(n) == IF n >= 0 THEN <<2 ^ n, 1>> ELSE <<1, 2 ^ (-n)>>

\* exp(x), for x a multiple of 1/2, in units where exp(1/2) = 2.
Exp(x) == Pow2((2 * x[1]) \div x[2])

ISqrt(n) == CHOOSE s \in 0..n : s * s = n

\* sqrt(x), for x the square of a rational.
Sqrt(x) == <<ISqrt(x[1]), ISqrt(x[2])>>

ILog2(n) == CHOOSE k \in 0..30 : 2 ^ k = n

\* log(x), the inverse of Exp, for x a power of two.
Log(x) == IF x[2] = 1 THEN R(ILog2(x[1]), 2) ELSE R(-ILog2(x[2]), 2)

\* norm.cdf: a strictly increasing distribution function, symmetric about 0.
norm_cdf(x) == RAdd(Half, RDiv(x, RMul(RInt(2), RAdd(One, <<Abs(x[1]), x[2]>>))))

\* Python's round(): to the nearest integer, a tie going to the even one.
round(x) ==
    LET fl == x[1] \div x[2]
        twice == 2 * (x[1] - fl * x[2])
    IN  IF twice < x[2] THEN fl
        ELSE IF twice > x[2] THEN fl + 1
        ELSE IF fl % 2 = 0 THEN fl ELSE fl + 1

(***************************************************************************)
(* Results of a call: a returned value or a raised exception.              *)
(***************************************************************************)
NoResult == [st |-> "none", price |-> Zero, se |-> Zero]

Return(price, se) == [st |-> "ok", price |-> price, se |-> se]

Raise(exc) == [st |-> exc, price |-> Zero, se |-> Zero]

(***************************************************************************)
(* EuropeanOption.black_scholes                                            *)
(***************************************************************************)
\* black_scholes with the put's strike leg at norm.cdf(d2) for norm.cdf(-d2).
black_scholes_put_d2(self, spot_price) ==
    LET sqrtT == Sqrt(self.expiry)
        d1 == RDiv(RAdd(Log(RDiv(spot_price, self.strike)),
                        RMul(RAdd(RSub(self.rate, self.dividend_yield),
                                  RMul(Half, RPow(self.volatility, 2))),
                             self.expiry)),
                   RMul(self.volatility, sqrtT))
        d2 == RSub(d1, RMul(self.volatility, sqrtT))
        dfq == Exp(RMul(RNeg(self.dividend_yield), self.expiry))
        dfr == Exp(RMul(RNeg(self.rate), self.expiry))
    IN  IF self.option_type = "call"
        THEN Return(RSub(RMul(RMul(spot_price, dfq), norm_cdf(d1)),
                         RMul(RMul(self.strike, dfr), norm_cdf(d2))), Zero)
        ELSE IF self.option_type = "put"
        THEN Return(RSub(RMul(RMul(self.strike, dfr), norm_cdf(d2)),
                         RMul(RMul(spot_price, dfq), norm_cdf(RNeg(d1)))), Zero)
        ELSE Raise("ValueError")

black_scholes(self, spot_price) ==
    LET sqrtT == Sqrt(self.expiry)
        d1 == RDiv(RAdd(Log(RDiv(spot_price, self.strike)),
                        RMul(RAdd(RSub(self.rate, self.dividend_yield),
                                  RMul(Half, RPow(self.volatility, 2))),
                             self.expiry)),
                   RMul(self.volatility, sqrtT))
        d2 == RSub(d1, RMul(self.volatility, sqrtT))
        dfq == Exp(RMul(RNeg(self.dividend_yield), self.expiry))
        dfr == Exp(RMul(RNeg(self.rate), self.expiry))
    IN  IF self.option_type = "call"
        THEN Return(RSub(RMul(RMul(spot_price, dfq), norm_cdf(d1)),
                         RMul(RMul(self.strike, dfr), norm_cdf(d2))), Zero)
        ELSE IF self.option_type = "put"
        THEN Return(RSub(RMul(RMul(self.strike, dfr), norm_cdf(RNeg(d2))),
                         RMul(RMul(spot_price, dfq), norm_cdf(RNeg(d1)))), Zero)
        ELSE Raise("ValueError")

(***************************************************************************)
(* AmericanOption.binomial_tree.  option_values is the Python list, held   *)
(* as a sequence (list index i is sequence index i + 1) and overwritten in *)
(* place.                                                                  *)
(***************************************************************************)
\* dt, u, d, disc and p of the tree.
american_params(self) ==
    LET dt == RDiv(self.expiry, RInt(self.steps))
        u == Exp(RMul(self.volatility, Sqrt(dt)))
        d == RDiv(One, u)
        disc == Exp(RMul(RNeg(self.rate), dt))
        p == RDiv(RSub(Exp(RMul(RSub(self.rate, self.dividend_yield), dt)), d),
                  RSub(u, d))
    IN  [dt |-> dt, u |-> u, d |-> d, disc |-> disc, p |-> p]

\* The exercise value with the two payoffs exchanged.
american_exercise_swapped(self, ST) ==
    IF self.option_type = "call"
    THEN RMax(Zero, RSub(self.strike, ST))
    ELSE RMax(Zero, RSub(ST, self.strike))

american_exercise(self, ST) ==
    IF self.option_type = "call"
    THEN RMax(Zero, RSub(ST, self.strike))
    ELSE RMax(Zero, RSub(self.strike, ST))

american_ST(c, spot_price, step, i) ==
    RMul(RMul(spot_price, RPow(c.u, step - i)), RPow(c.d, i))

american_terminal(self, c, spot_price) ==
    Tuple([k \in 1..(self.steps + 1) |->
              american_exercise(self,
                  american_ST(c, spot_price, self.steps, k - 1))],
          self.steps + 1)

\* The backward induction keeping the continuation value only.
american_node_no_exercise(self, c, spot_price, option_values, step, i) ==
    RMul(c.disc, RAdd(RMul(c.p, option_values[i + 1]),
                      RMul(RSub(One, c.p), option_values[i + 2])))

\* One node of the backward induction: option_values[i] at a step.
american_node(self, c, spot_price, option_values, step, i) ==
    LET ST == american_ST(c, spot_price, step, i)
        continuation_val ==
            RMul(c.disc, RAdd(RMul(c.p, option_values[i + 1]),
                              RMul(RSub(One, c.p), option_values[i + 2])))
        exercise == american_exercise(self, ST)
    IN  RMax(continuation_val, exercise)

RECURSIVE american_inner(_, _, _, _, _, _)
american_inner(self, c, spot_price, option_values, step, i) ==
    IF i > step THEN option_values
    ELSE american_inner(self, c, spot_price,
             [option_values EXCEPT ![i + 1] =
                 american_node(self, c, spot_price, option_values, step, i)],
             step, i + 1)

RECURSIVE american_backward(_, _, _, _, _)
american_backward(self, c, spot_price, option_values, step) ==
    IF step < 0 THEN option_values
    ELSE american_backward(self, c, spot_price,
             american_inner(self, c, spot_price, option_values, step, 0),
             step - 1)

binomial_tree(self, spot_price) ==
    LET c == american_params(self)
    IN  Return(american_backward(self, c, spot_price,
                   american_terminal(self, c, spot_price), self.steps - 1)[1],
               Zero)

(***************************************************************************)
(* BermudanOption._binomial_tree                                           *)
(***************************************************************************)
\* BermudanOption.__init__: the exercise_dates field, from the argument
\* (given is FALSE for None, the default).
Bermudan_init_dates(expiry, exercise_dates) ==
    IF ~exercise_dates.given THEN <<expiry>> ELSE exercise_dates.dates

\* dt, u, d, disc and p of the tree.
bermudan_params(self) ==
    LET dt == RDiv(self.expiry, RInt(self.steps))
        u == Exp(RMul(self.volatility, Sqrt(dt)))
        d == RDiv(One, u)
        disc == Exp(RMul(RNeg(self.rate), dt))
        p == RDiv(RSub(Exp(RMul(RSub(self.rate, self.dividend_yield), dt)), d),
                  RSub(u, d))
    IN  [dt |-> dt, u |-> u, d |-> d, disc |-> disc, p |-> p]

\* The step by truncation, int(t / dt), in place of rounding.
exercise_step_truncated(t, dt) == RDiv(t, dt)[1] \div RDiv(t, dt)[2]

\* The step an exercise time maps to.
exercise_step(t, dt) == round(RDiv(t, dt))

\* The loop over self.exercise_dates leaving at the first time that maps to
\* no step of 1..N (break for continue).
RECURSIVE map_exercise_dates_break(_, _, _, _, _, _)
map_exercise_dates_break(exercise_dates, dt, N, idx, exercise_steps, allow) ==
    IF idx > Len(exercise_dates)
    THEN [exercise_steps |-> exercise_steps,
          allow_terminal_exercise |-> allow]
    ELSE LET k == exercise_step(exercise_dates[idx], dt)
         IN  IF Abs(k - N) <= 0
             THEN map_exercise_dates_break(exercise_dates, dt, N, idx + 1,
                                           exercise_steps, TRUE)
             ELSE IF 1 <= k /\ k <= N - 1
             THEN map_exercise_dates_break(exercise_dates, dt, N, idx + 1,
                                           exercise_steps \cup {k},
                                           allow)
             ELSE [exercise_steps |-> exercise_steps,
                   allow_terminal_exercise |-> allow]

\* The loop over self.exercise_dates: the set of early-exercise steps and
\* the flag allowing exercise at maturity.
RECURSIVE map_exercise_dates(_, _, _, _, _, _)
map_exercise_dates(exercise_dates, dt, N, idx, exercise_steps, allow) ==
    IF idx > Len(exercise_dates)
    THEN [exercise_steps |-> exercise_steps,
          allow_terminal_exercise |-> allow]
    ELSE LET k == exercise_step(exercise_dates[idx], dt)
         IN  IF Abs(k - N) <= 0
             THEN map_exercise_dates(exercise_dates, dt, N, idx + 1,
                                     exercise_steps, TRUE)
             ELSE IF 1 <= k /\ k <= N - 1
             THEN map_exercise_dates(exercise_dates, dt, N, idx + 1,
                                     exercise_steps \cup {k},
                                     allow)
             ELSE map_exercise_dates(exercise_dates, dt, N, idx + 1,
                                     exercise_steps, allow)

\* The stock lattice, built level by level: level i (sequence index i + 1)
\* holds stock[i][0..i].
RECURSIVE stock_levels(_, _, _, _)
stock_levels(c, spot_price, N, levels) ==
    IF Len(levels) = N + 1 THEN levels
    ELSE LET i == Len(levels)
             prev == levels[i]
         IN  stock_levels(c, spot_price, N,
                 Append(levels,
                     Tuple([k \in 1..(i + 1) |->
                               IF k = 1 THEN RMul(prev[1], c.u)
                               ELSE RMul(prev[k - 1], c.d)], i + 1)))

stock_lattice(c, spot_price, N) == stock_levels(c, spot_price, N, <<<<spot_price>>>>)

\* The intrinsic value without its floor at zero.
bermudan_intrinsic_unfloored(self, S) ==
    IF self.option_type = "call"
    THEN RSub(S, self.strike)
    ELSE RSub(self.strike, S)

bermudan_intrinsic(self, S) ==
    LET intrinsic == IF self.option_type = "call"
                     THEN RSub(S, self.strike)
                     ELSE RSub(self.strike, S)
    IN  IF RLt(Zero, intrinsic) THEN intrinsic ELSE Zero

\* The terminal layer holding the intrinsic payoff whatever the schedule.
bermudan_terminal_always(self, stock, allow_terminal_exercise) ==
    Tuple([k \in 1..(self.steps + 1) |->
              bermudan_intrinsic(self, stock[self.steps + 1][k])],
          self.steps + 1)

bermudan_terminal(self, stock, allow_terminal_exercise) ==
    Tuple([k \in 1..(self.steps + 1) |->
              IF allow_terminal_exercise
              THEN bermudan_intrinsic(self, stock[self.steps + 1][k])
              ELSE Zero],
          self.steps + 1)

\* The backward induction taking the smaller of continuation and intrinsic
\* value at an exercise step.
bermudan_node_min(self, c, stock, exercise_steps, values, i, j) ==
    LET continuation ==
            RMul(c.disc, RAdd(RMul(c.p, values[j + 1]),
                              RMul(RSub(One, c.p), values[j + 2])))
        intrinsic == bermudan_intrinsic(self, stock[i + 1][j + 1])
    IN  IF i \in exercise_steps
        THEN IF RLt(continuation, intrinsic) THEN continuation ELSE intrinsic
        ELSE continuation

\* The backward induction without the early-exercise branch.
bermudan_node_no_exercise(self, c, stock, exercise_steps, values, i, j) ==
    RMul(c.disc, RAdd(RMul(c.p, values[j + 1]),
                      RMul(RSub(One, c.p), values[j + 2])))

\* One node of the backward induction: values[j] at step i.
bermudan_node(self, c, stock, exercise_steps, values, i, j) ==
    LET continuation ==
            RMul(c.disc, RAdd(RMul(c.p, values[j + 1]),
                              RMul(RSub(One, c.p), values[j + 2])))
    IN  IF i \in exercise_steps
        THEN RMax(continuation, bermudan_intrinsic(self, stock[i + 1][j + 1]))
        ELSE continuation

\* The inner loop run from j = i down to 0: a node then reads the value its
\* lower neighbour was just given, not that of its child.
RECURSIVE bermudan_inner_descending(_, _, _, _, _, _, _)
bermudan_inner_descending(self, c, stock, exercise_steps, values, i, j) ==
    IF j > i THEN values
    ELSE bermudan_inner_descending(self, c, stock, exercise_steps,
             [values EXCEPT ![i - j + 1] =
                 bermudan_node(self, c, stock, exercise_steps, values, i, i - j)],
             i, j + 1)

RECURSIVE bermudan_inner(_, _, _, _, _, _, _)
bermudan_inner(self, c, stock, exercise_steps, values, i, j) ==
    IF j > i THEN values
    ELSE bermudan_inner(self, c, stock, exercise_steps,
             [values EXCEPT ![j + 1] =
                 bermudan_node(self, c, stock, exercise_steps, values, i, j)],
             i, j + 1)

RECURSIVE bermudan_backward(_, _, _, _, _, _)
bermudan_backward(self, c, stock, exercise_steps, values, i) ==
    IF i < 0 THEN values
    ELSE bermudan_backward(self, c, stock, exercise_steps,
             bermudan_inner(self, c, stock, exercise_steps, values, i, 0),
             i - 1)

\* The check on the risk-neutral probability.
arbitrage_free(p) == RLe(Zero, p) /\ RLe(p, One)

bermudan_binomial_tree(self, spot_price) ==
    LET N == self.steps
        c == bermudan_params(self)
        m == map_exercise_dates(self.exercise_dates, c.dt, N, 1, {}, FALSE)
        stock == stock_lattice(c, spot_price, N)
    IN  IF ~arbitrage_free(c.p)
        THEN Raise("ValueError")
        ELSE Return(bermudan_backward(self, c, stock, m.exercise_steps,
                        bermudan_terminal(self, stock, m.allow_terminal_exercise),
                        N - 1)[1], Zero)

(***************************************************************************)
(* numpy's process-wide generator (np.random): its state, seeding and the  *)
(* standard-normal sampler.  The state space is small and the variates     *)
(* are the integers -1, 0, 1; a seed fixes the stream, and seeding with    *)
(* None draws fresh entropy.                                               *)
(***************************************************************************)
RngStates == 0..7

NoSeed == -1

rng_step(s) == (5 * s + 3) % Cardinality(RngStates)

RECURSIVE rng_skip(_, _)
rng_skip(s, k) == IF k = 0 THEN s ELSE rng_skip(rng_step(s), k - 1)

rng_normal(s) == RInt(<<-1, 0, 0, 1>>[(s \div 2) + 1])

\* np.random.seed(seed): entropy is what the operating system supplies.
random_seed(seed, entropy) ==
    IF seed = NoSeed THEN entropy ELSE (3 * seed + 1) % Cardinality(RngStates)

\* np.random.randn(rows, cols) from state s: the matrix, filled row by row,
\* and the state it leaves.
random_randn(s, rows, cols) ==
    [Z |-> Tuple([i \in 1..rows |->
               Tuple([j \in 1..cols |-> rng_normal(rng_skip(s, (i - 1) * cols + j))], cols)], rows),
     state |-> rng_skip(s, rows * cols)]

(***************************************************************************)
(* AsianOption.price, in the three parts a call goes through: validation   *)
(* and seeding, drawing, and the evaluation of the payoffs.                *)
(***************************************************************************)
asian_invalid(self) ==
    \/ RLe(self.expiry, Zero)
    \/ RLt(self.volatility, Zero)
    \/ self.num_steps <= 0
    \/ self.num_simulations <= 0

\* The antithetic matrix without the truncation to m rows.
asian_draw_untruncated(self, s) ==
    LET n == self.num_steps
        m == self.num_simulations
    IN  IF self.antithetic
        THEN LET m_half == (m + 1) \div 2
                 d == random_randn(s, m_half, n)
                 neg == Tuple([i \in 1..m_half |-> Tuple([j \in 1..n |-> RNeg(d.Z[i][j])], n)], m_half)
             IN  [Z |-> d.Z \o neg, state |-> d.state]
        ELSE random_randn(s, m, n)

\* Z, the m x n matrix of draws, and the generator state after drawing.
asian_draw(self, s) ==
    LET n == self.num_steps
        m == self.num_simulations
    IN  IF self.antithetic
        THEN LET m_half == (m + 1) \div 2
                 d == random_randn(s, m_half, n)
                 neg == Tuple([i \in 1..m_half |-> Tuple([j \in 1..n |-> RNeg(d.Z[i][j])], n)], m_half)
             IN  [Z |-> SubSeq(d.Z \o neg, 1, m), state |-> d.state]
        ELSE random_randn(s, m, n)

RECURSIVE RSum(_, _)
RSum(xs, k) == IF k = 0 THEN Zero ELSE RAdd(RSum(xs, k - 1), xs[k])

\* str(x).lower() on the option types of the model.
lower(x) == IF x \in {"call", "Call", "CALL"} THEN "call"
            ELSE IF x \in {"put", "Put", "PUT"} THEN "put"
            ELSE x

asian_S_paths(self, S0, Z) ==
    LET n == self.num_steps
        dt == RDiv(self.expiry, RInt(n))
        drift == RMul(RSub(RSub(self.rate, self.dividend_yield),
                           RMul(RMul(Half, self.volatility), self.volatility)), dt)
        diffusion == RMul(self.volatility, Sqrt(dt))
        incr(i) == Tuple([j \in 1..n |-> RAdd(drift, RMul(diffusion, Z[i][j]))], n)
    IN  Tuple([i \in 1..Len(Z) |->
            Tuple([j \in 1..n |-> Exp(RAdd(Log(S0), RSum(incr(i), j)))], n)], Len(Z))

\* The averages with the spot always among the monitored prices.
asian_A_with_s0(self, S0, S_paths) ==
    LET n == self.num_steps
    IN  Tuple([i \in 1..Len(S_paths) |->
            RDiv(RAdd(RSum(S_paths[i], n), S0), RInt(n + 1))], Len(S_paths))

asian_A(self, S0, S_paths) ==
    LET n == self.num_steps
    IN  Tuple([i \in 1..Len(S_paths) |->
            IF self.include_s0
            THEN RDiv(RAdd(RSum(S_paths[i], n), S0), RInt(n + 1))
            ELSE RDiv(RSum(S_paths[i], n), RInt(n))], Len(S_paths))

\* payoffs.mean() and the square of payoffs.std(ddof=1) (NaN when m = 1).
mean(xs) == RDiv(RSum(xs, Len(xs)), RInt(Len(xs)))

var_ddof1(xs) ==
    LET mu == mean(xs)
        sq == Tuple([i \in 1..Len(xs) |-> RMul(RSub(xs[i], mu), RSub(xs[i], mu))], Len(xs))
    IN  IF Len(xs) - 1 = 0 THEN NaN
        ELSE RDiv(RSum(sq, Len(xs)), RInt(Len(xs) - 1))

\* The returned pair (price, std_error); the model holds the square of
\* std_error, the square root being monotone.
asian_evaluate(self, S0, Z) ==
    LET m == self.num_simulations
        A == asian_A(self, S0, asian_S_paths(self, S0, Z))
        opt_type == lower(self.option_type)
        payoffs == Tuple([i \in 1..m |->
                       IF opt_type = "call"
                       THEN RMax(RSub(A[i], self.strike), Zero)
                       ELSE RMax(RSub(self.strike, A[i]), Zero)], m)
        disc == Exp(RMul(RNeg(self.rate), self.expiry))
        v == var_ddof1(payoffs)
    IN  IF opt_type \notin {"call", "put"} THEN Raise("ValueError")
        ELSE Return(RMul(disc, mean(payoffs)),
                    IF v = NaN THEN NaN
                    ELSE RDiv(RMul(RMul(disc, disc), v), RInt(m)))

\* The call seeding the generator before it validates.
asian_price_seed_first(self, spot_price, s, entropy) ==
    IF asian_invalid(self)
    THEN [res |-> Raise("ValueError"), state |-> random_seed(self.seed, entropy)]
    ELSE LET drawn == asian_draw(self, random_seed(self.seed, entropy))
         IN  [res |-> asian_evaluate(self, spot_price, drawn.Z),
              state |-> drawn.state]

\* The call without np.random.seed: the draws continue the stream at s.
asian_price_unseeded(self, spot_price, s, entropy) ==
    IF asian_invalid(self)
    THEN [res |-> Raise("ValueError"), state |-> s]
    ELSE LET drawn == asian_draw(self, s)
         IN  [res |-> asian_evaluate(self, spot_price, drawn.Z),
              state |-> drawn.state]

\* The whole call from generator state s: the result and the state it leaves.
asian_price(self, spot_price, s, entropy) ==
    IF asian_invalid(self)
    THEN [res |-> Raise("ValueError"), state |-> s]
    ELSE LET drawn == asian_draw(self, random_seed(self.seed, entropy))
         IN  [res |-> asian_evaluate(self, spot_price, drawn.Z),
              state |-> drawn.state]

(***************************************************************************)
(* Objects.  One record shape serves the four classes; a field a class     *)
(* does not have holds a fixed filler.                                     *)
(***************************************************************************)
NoTerms == [expiry |-> Zero, strike |-> Zero, option_type |-> "",
            volatility |-> Zero, rate |-> Zero, dividend_yield |-> Zero]

NoExtras == [steps |-> 0, exercise_dates |-> <<>>, num_simulations |-> 0,
             num_steps |-> 0, antithetic |-> FALSE, seed |-> NoSeed,
             include_s0 |-> FALSE]

Object(kind, terms, extras) ==
    [kind |-> kind,
     expiry |-> terms.expiry, strike |-> terms.strike,
     option_type |-> terms.option_type, volatility |-> terms.volatility,
     rate |-> terms.rate, dividend_yield |-> terms.dividend_yield,
     steps |-> extras.steps, exercise_dates |-> extras.exercise_dates,
     num_simulations |-> extras.num_simulations, num_steps |-> extras.num_steps,
     antithetic |-> extras.antithetic, seed |-> extras.seed,
     include_s0 |-> extras.include_s0]

NoObj == Object("none", NoTerms, NoExtras)

TermsOf(o) ==
    [expiry |-> o.expiry, strike |-> o.strike, option_type |-> o.option_type,
     volatility |-> o.volatility, rate |-> o.rate,
     dividend_yield |-> o.dividend_yield]

\* Option.__init__ without the assertion on dividend_yield.
Option_init_no_yield_assert(terms) ==
    /\ terms.option_type \in {"call", "put"}
    /\ RLt(Zero, terms.expiry)
    /\ RLt(Zero, terms.strike)
    /\ RLt(Zero, terms.volatility)
    /\ RLe(Zero, terms.rate)

\* Option.__init__: the six assertions, after the fields are assigned.
Option_init(terms) ==
    /\ terms.option_type \in {"call", "put"}
    /\ RLt(Zero, terms.expiry)
    /\ RLt(Zero, terms.strike)
    /\ RLt(Zero, terms.volatility)
    /\ RLe(Zero, terms.rate)
    /\ RLe(Zero, terms.dividend_yield)

(***************************************************************************)
(* The arguments the actions draw from.                                    *)
(***************************************************************************)
Rates == {Zero, Half, One}

LogMoves == {Half, One}

StepSizes == {1, 4}

Spots == {<<1, 4>>, One, <<4, 1>>}

\* Valid terms for a lattice of N steps of size dt: volatility * sqrt(dt),
\* rate * dt and dividend_yield * dt lie on the grid of Exp.
GoodTerms(N) ==
    {[expiry |-> RInt(N * dt), strike |-> One, option_type |-> ty,
      volatility |-> RDiv(a, Sqrt(RInt(dt))), rate |-> RDiv(rr, RInt(dt)),
      dividend_yield |-> RDiv(qq, RInt(dt))] :
        dt \in StepSizes, ty \in {"call", "put"}, a \in LogMoves,
        rr \in Rates, qq \in Rates}

\* Terms of which at least one violates its bound: every combination of the
\* values below but the one whose terms are all within bounds.
BadTerms ==
    [expiry : {One, Zero, RInt(-1)}, strike : {One, Zero},
     option_type : {"call", "banana"},
     volatility : {One, Zero, RNeg(Half)}, rate : {Zero, RNeg(Half)},
     dividend_yield : {Zero, RNeg(Half)}]
    \ {[expiry |-> One, strike |-> One, option_type |-> "call",
         volatility |-> One, rate |-> Zero, dividend_yield |-> Zero]}

\* Exercise times on the half-step grid from 0 to one step past maturity.
TimeGrid(N, dt) == {R(h * dt, 2) : h \in 0..(2 * N + 2)}

\* The exercise_dates argument: absent (None), every step, or a list of at
\* most two times.
Schedules(N, dt) ==
    {[given |-> FALSE, dates |-> <<>>],
     [given |-> TRUE, dates |-> [k \in 1..N |-> RInt(k * dt)]]}
    \cup {[given |-> TRUE, dates |-> ds] :
            ds \in {<<>>} \cup {<<t>> : t \in TimeGrid(N, dt)}
                   \cup {<<t1, t2>> : t1 \in TimeGrid(N, dt), t2 \in TimeGrid(N, dt)}}

AsianTerms(n) ==
    {[expiry |-> RInt(IF n = 0 THEN 1 ELSE n), strike |-> One,
      option_type |-> ty, volatility |-> One, rate |-> rr,
      dividend_yield |-> Zero] : ty \in {"call", "put"}, rr \in {Zero, Half}}

AsianSpots == {One, <<4, 1>>}

(***************************************************************************)
(* State: obj is the option object the caller holds, out the result of the *)
(* last price call on it, last the last operation, rng the state of the    *)
(* process-wide generator, thr the threads inside AsianOption.price.       *)
(***************************************************************************)
NoOp == [op |-> "none", args |-> NoTerms, spot |-> Zero, exc |-> "none",
         calls |-> 0]

Constructed(terms) ==
    [op |-> "construct", args |-> terms, spot |-> Zero,
     exc |-> IF Option_init(terms) THEN "none" ELSE "AssertionError",
     calls |-> 0]

\* calls counts the price calls made on the object.
Priced(spot) ==
    [op |-> "price", args |-> NoTerms, spot |-> spot, exc |-> "none",
     calls |-> last.calls + 1]

NoThreads == [t \in 1..2 |-> [pc |-> "idle", self |-> NoObj, spot |-> Zero,
                              Z |-> <<>>, res |-> NoResult]]

\* A constructor call: the object on success, no object on a failed assertion.
Construct(kind, terms, extras) ==
    /\ obj' = IF Option_init(terms) THEN Object(kind, terms, extras) ELSE NoObj
    /\ last' = Constructed(terms)
    /\ UNCHANGED <<out, rng, thr>>

\* The caller holds no object yet.
Fresh == obj.kind = "none" /\ last.op = "none"

ConstructEuropean ==
    /\ Fresh
    /\ \E terms \in GoodTerms(1) \cup BadTerms :
        Construct("European", terms, NoExtras)

ConstructAmerican ==
    /\ Fresh
    /\ \E N \in 1..MaxSteps :
        \E terms \in GoodTerms(N) \cup BadTerms :
            Construct("American", terms, [NoExtras EXCEPT !.steps = N])

ConstructBermudan ==
    /\ Fresh
    /\ \E N \in 1..MaxSteps, dt \in StepSizes :
        \E terms \in {t \in GoodTerms(N) : t.expiry = RInt(N * dt)} \cup BadTerms :
            \E sch \in Schedules(N, dt) :
                Construct("Bermudan", terms,
                    [NoExtras EXCEPT !.steps = N,
                        !.exercise_dates = Bermudan_init_dates(terms.expiry, sch)])

ConstructAsian ==
    /\ Fresh
    /\ \E n \in 0..MaxMonitor, m \in 0..MaxSims, seed \in {NoSeed} \cup 1..MaxSeed,
          antithetic \in BOOLEAN, include_s0 \in BOOLEAN :
        \E terms \in AsianTerms(n) \cup BadTerms :
            Construct("Asian", terms,
                [NoExtras EXCEPT !.num_simulations = m, !.num_steps = n,
                    !.antithetic = antithetic, !.seed = seed,
                    !.include_s0 = include_s0])

\* price(spot_price) of the three deterministic pricers.
Price(kind, result) ==
    /\ obj.kind = kind
    /\ last.op \in {"construct", "assign"}
    /\ out' = result
    /\ UNCHANGED <<obj, rng, thr>>

PriceEuropean ==
    \E spot \in Spots :
        Price("European", black_scholes(obj, spot)) /\ last' = Priced(spot)

PriceAmerican ==
    \E spot \in Spots :
        Price("American", binomial_tree(obj, spot)) /\ last' = Priced(spot)

PriceBermudan ==
    \E spot \in Spots :
        Price("Bermudan", bermudan_binomial_tree(obj, spot)) /\ last' = Priced(spot)

Init ==
    /\ obj = NoObj
    /\ out = NoResult
    /\ last = NoOp
    /\ rng = 0
    /\ thr = NoThreads

Next ==
    \/ ConstructEuropean
    \/ ConstructAmerican
    \/ ConstructBermudan
    \/ ConstructAsian
    \/ PriceEuropean
    \/ PriceAmerican
    \/ PriceBermudan

Spec == Init /\ [][Next]_vars

(***************************************************************************)
(* The Monte Carlo pricer, called in sequence by one thread: the process   *)
(* starts with the generator in any state, and other code of the process   *)
(* draws from the generator between the calls.                             *)
(***************************************************************************)
PriceAsian ==
    /\ obj.kind = "Asian"
    /\ last.calls < MaxCalls
    /\ \E spot \in AsianSpots :
        \E entropy \in IF obj.seed = NoSeed THEN RngStates ELSE {0} :
            LET r == asian_price(obj, spot, rng, entropy)
            IN  /\ out' = r.res
                /\ rng' = r.state
                /\ last' = Priced(spot)
                /\ UNCHANGED <<obj, thr>>

\* Another user of np.random draws one variate.
OtherDraw ==
    /\ rng' = rng_step(rng)
    /\ UNCHANGED <<obj, out, last, thr>>

\* The caller drops the object.
Release ==
    /\ obj.kind # "none"
    /\ obj' = NoObj
    /\ out' = NoResult
    /\ last' = NoOp
    /\ UNCHANGED <<rng, thr>>

InitMC ==
    /\ obj = NoObj
    /\ out = NoResult
    /\ last = NoOp
    /\ rng \in RngStates
    /\ thr = NoThreads

NextMC ==
    \/ ConstructAsian
    \/ PriceAsian
    \/ OtherDraw
    \/ Release

SpecMC == InitMC /\ [][NextMC]_vars

(***************************************************************************)
(* Two threads inside AsianOption.price at once, with no lock: each call   *)
(* seeds the shared generator, draws its matrix from it and evaluates the  *)
(* payoffs.  np.random.seed and np.random.randn are each one atomic call.  *)
(***************************************************************************)
ThreadTerms == {t \in AsianTerms(1) : t.rate = Half}

ThreadSeed(t) ==
    /\ thr[t].pc = "idle"
    /\ IF asian_invalid(thr[t].self)
       THEN /\ thr' = [thr EXCEPT ![t].pc = "done", ![t].res = Raise("ValueError")]
            /\ UNCHANGED rng
       ELSE /\ \E entropy \in IF thr[t].self.seed = NoSeed THEN RngStates ELSE {0} :
                rng' = random_seed(thr[t].self.seed, entropy)
            /\ thr' = [thr EXCEPT ![t].pc = "seeded"]
    /\ UNCHANGED <<obj, out, last>>

ThreadDraw(t) ==
    /\ thr[t].pc = "seeded"
    /\ LET drawn == asian_draw(thr[t].self, rng)
       IN  /\ thr' = [thr EXCEPT ![t].pc = "drawn", ![t].Z = drawn.Z]
           /\ rng' = drawn.state
    /\ UNCHANGED <<obj, out, last>>

ThreadEvaluate(t) ==
    /\ thr[t].pc = "drawn"
    /\ thr' = [thr EXCEPT ![t].pc = "done",
                  ![t].res = asian_evaluate(thr[t].self, thr[t].spot, thr[t].Z)]
    /\ UNCHANGED <<obj, out, last, rng>>

InitThreads ==
    /\ obj = NoObj
    /\ out = NoResult
    /\ last = NoOp
    /\ rng \in RngStates
    /\ \E terms \in ThreadTerms, m \in 1..MaxSims, antithetic \in BOOLEAN,
          spot \in AsianSpots, s1 \in 1..MaxSeed, s2 \in 1..MaxSeed :
        /\ s1 # s2
        /\ thr = [t \in 1..2 |->
                    [pc |-> "idle",
                     self |-> Object("Asian", terms,
                                 [NoExtras EXCEPT !.num_simulations = m,
                                     !.num_steps = 1, !.antithetic = antithetic,
                                     !.seed = IF t = 1 THEN s1 ELSE s2]),
                     spot |-> spot, Z |-> <<>>, res |-> NoResult]]

NextThreads ==
    \E t \in 1..2 : ThreadSeed(t) \/ ThreadDraw(t) \/ ThreadEvaluate(t)

SpecThreads == InitThreads /\ [][NextThreads]_vars

(***************************************************************************)
(* Direct assignment to a field of a constructed object (obj.field =       *)
(* value): the classes define plain attributes, so the assignment stores   *)
(* the value and runs no validation.  The objects and the values are       *)
(* those on which the formulas of the model are exact; expiry and          *)
(* volatility are assigned on AsianOption objects, whose price validates   *)
(* them before any arithmetic.                                             *)
(***************************************************************************)
\* Terms within bounds with a step of size 1.
UnitStepTerms(N) == {t \in GoodTerms(N) : t.expiry = RInt(N)}

AssignObjects ==
    {Object("European", terms, NoExtras) : terms \in UnitStepTerms(1)}
    \cup UNION {{Object("American", terms, [NoExtras EXCEPT !.steps = N]) :
                    terms \in UnitStepTerms(N)} : N \in 1..MaxSteps}
    \cup UNION {{Object("Bermudan", terms,
                    [NoExtras EXCEPT !.steps = N,
                        !.exercise_dates = Bermudan_init_dates(terms.expiry, sch)]) :
                    terms \in UnitStepTerms(N),
                    sch \in {[given |-> FALSE, dates |-> <<>>],
                             [given |-> TRUE, dates |-> [k \in 1..N |-> RInt(k)]]}} :
                 N \in 1..MaxSteps}
    \cup UNION {{Object("Asian", terms,
                    [NoExtras EXCEPT !.num_simulations = m, !.num_steps = n,
                        !.antithetic = antithetic, !.seed = seed]) :
                    terms \in AsianTerms(n), m \in 0..MaxSims,
                    seed \in {NoSeed} \cup 1..MaxSeed, antithetic \in BOOLEAN} :
                 n \in 0..MaxMonitor}

\* The values assigned to a field of an object of a class.
AssignValues(kind, field) ==
    CASE field = "option_type" -> {"banana", "Call", "put"}
      [] field = "strike" -> {RInt(4)}
      [] field = "rate" -> {RNeg(Half), One}
      [] field = "dividend_yield" -> {RNeg(Half)}
      [] field = "expiry" -> IF kind = "Asian" THEN {Zero, RInt(-1)} ELSE {}
      [] field = "volatility" -> IF kind = "Asian" THEN {RNeg(One)} ELSE {}

Assigned == [op |-> "assign", args |-> last.args, spot |-> Zero,
             exc |-> "none", calls |-> last.calls]

\* obj.field = value, once, between the construction and the price calls.
Assign ==
    /\ obj.kind # "none"
    /\ last.op = "construct"
    /\ \E field \in {"expiry", "strike", "option_type", "volatility", "rate",
                     "dividend_yield"} :
        \E value \in AssignValues(obj.kind, field) :
            obj' = [obj EXCEPT ![field] = value]
    /\ last' = Assigned
    /\ UNCHANGED <<out, rng, thr>>

InitAssign ==
    /\ obj \in AssignObjects
    /\ out = NoResult
    /\ last = Constructed(TermsOf(obj))
    /\ rng \in {0, 5}
    /\ thr = NoThreads

NextAssign ==
    \/ Assign
    \/ PriceEuropean
    \/ PriceAmerican
    \/ PriceBermudan
    \/ PriceAsian

SpecAssign == InitAssign /\ [][NextAssign]_vars

(***************************************************************************)
(* One thread inside AsianOption.price, step by step: the matrix of draws  *)
(* is held in thr[1].Z between the drawing and the evaluation.             *)
(***************************************************************************)
InitDraw ==
    /\ obj = NoObj
    /\ out = NoResult
    /\ last = NoOp
    /\ rng \in RngStates
    /\ \E n \in 1..(MaxMonitor + 1), m \in 1..(MaxSims + 1),
          seed \in {NoSeed} \cup 1..MaxSeed, antithetic \in BOOLEAN,
          include_s0 \in BOOLEAN, spot \in AsianSpots :
        \E terms \in AsianTerms(n) :
            thr = [NoThreads EXCEPT ![1] =
                    [pc |-> "idle",
                     self |-> Object("Asian", terms,
                                 [NoExtras EXCEPT !.num_simulations = m,
                                     !.num_steps = n, !.antithetic = antithetic,
                                     !.seed = seed, !.include_s0 = include_s0]),
                     spot |-> spot, Z |-> <<>>, res |-> NoResult]]

NextDraw ==
    \/ ThreadSeed(1)
    \/ ThreadDraw(1)
    \/ ThreadEvaluate(1)

SpecDraw == InitDraw /\ [][NextDraw]_vars

(***************************************************************************)
(* Properties.                                                             *)
(***************************************************************************)

\* The bounds on the contract terms, as the specification states them.
OutOfBounds(t) ==
    \/ t.option_type \notin {"call", "put"}
    \/ RLe(t.expiry, Zero)
    \/ RLe(t.strike, Zero)
    \/ RLe(t.volatility, Zero)
    \/ RLt(t.rate, Zero)
    \/ RLt(t.dividend_yield, Zero)

\* C1: a constructor call of any of the four classes with an out-of-bounds
\* term fails with an AssertionError and leaves the caller without an
\* object, so that every object a caller holds, before and after a price
\* call, has all its terms within their bounds.
C1_ConstructionRejectsOutOfBounds ==
    /\ (last.op = "construct" /\ OutOfBounds(last.args))
          => (last.exc = "AssertionError" /\ obj = NoObj)
    /\ obj.kind # "none" => ~OutOfBounds(TermsOf(obj))

\* A constructor call whose only out-of-bounds term is the dividend yield
\* has failed.
C1_Witness ==
    /\ last.op = "construct"
    /\ RLt(last.args.dividend_yield, Zero)
    /\ ~OutOfBounds([last.args EXCEPT !.dividend_yield = Zero])
    /\ last.exc = "AssertionError"
    /\ obj = NoObj

\* The risk-neutral probability of the lattice of object o, as the
\* specification defines it.
RiskNeutralP(o) ==
    LET dt == RDiv(o.expiry, RInt(o.steps))
        u == Exp(RMul(o.volatility, Sqrt(dt)))
        d == RDiv(One, u)
    IN  RDiv(RSub(Exp(RMul(RSub(o.rate, o.dividend_yield), dt)), d), RSub(u, d))

OutsideUnitInterval(p) == RLt(p, Zero) \/ RLt(One, p)

\* C2: a price call on a lattice pricer (AmericanOption, BermudanOption)
\* whose risk-neutral probability lies outside [0, 1] raises an error and
\* returns no price.
C2_ArbitrageViolationRaises ==
    (/\ last.op = "price"
     /\ obj.kind \in {"American", "Bermudan"}
     /\ OutsideUnitInterval(RiskNeutralP(obj)))
        => out.st \notin {"ok", "none"}

\* The part of C2 the code satisfies: BermudanOption.price raises ValueError
\* when the probability lies outside [0, 1].
C2_BermudanRaises ==
    /\ last.op = "price"
    /\ obj.kind = "Bermudan"
    /\ OutsideUnitInterval(RiskNeutralP(obj))
    /\ out = Raise("ValueError")

\* The payoff of immediate exercise at spot S.
Intrinsic(o, S) ==
    IF o.option_type = "call" THEN RMax(RSub(S, o.strike), Zero)
    ELSE RMax(RSub(o.strike, S), Zero)

\* The schedule holding every step of the lattice of o: k * dt, k = 1..N.
EveryStep(o) ==
    [k \in 1..o.steps |-> RMul(RInt(k), RDiv(o.expiry, RInt(o.steps)))]

\* The prices, on the terms, step count and spot of the object just priced,
\* of the American lattice and of the lattice with exercise at maturity only.
AmericanPrice == binomial_tree(obj, last.spot).price

EuropeanLattice ==
    bermudan_binomial_tree([obj EXCEPT !.exercise_dates = <<obj.expiry>>], last.spot)

PricedBermudan == last.op = "price" /\ obj.kind = "Bermudan" /\ out.st = "ok"

\* C3 as stated: a Bermudan option whose schedule holds every step returns
\* the price of the American option on the same terms, steps and spot.
C3_EveryStepEqualsAmerican ==
    (PricedBermudan /\ obj.exercise_dates = EveryStep(obj))
        => out.price = AmericanPrice

\* C3, amended: a Bermudan option whose schedule holds every step never
\* exercises at step 0, so the American price is the larger of the Bermudan
\* price and the payoff of exercising at once; the two prices are equal
\* unless exercising at once is strictly better than holding.
C3_AmericanIsBermudanOrImmediate ==
    (PricedBermudan /\ obj.exercise_dates = EveryStep(obj))
        => AmericanPrice = RMax(out.price, Intrinsic(obj, last.spot))

\* A put deep in the money on two steps or more, every step in the schedule:
\* the American price is the payoff of exercising at once, above the
\* Bermudan price.
C3_Witness ==
    /\ PricedBermudan
    /\ obj.exercise_dates = EveryStep(obj)
    /\ obj.steps >= 2
    /\ obj.option_type = "put"
    /\ RLt(out.price, AmericanPrice)
    /\ AmericanPrice = Intrinsic(obj, last.spot)

\* Some date of the schedule rounds to step N, the maturity.
IncludesMaturity(o) ==
    \E idx \in 1..Len(o.exercise_dates) :
        round(RDiv(o.exercise_dates[idx], RDiv(o.expiry, RInt(o.steps)))) = o.steps

\* Every date of the schedule rounds to one of the steps 1..N.
DatesOnSteps(o) ==
    \A idx \in 1..Len(o.exercise_dates) :
        round(RDiv(o.exercise_dates[idx], RDiv(o.expiry, RInt(o.steps)))) \in 1..o.steps

\* C4 as stated: for every schedule, of one date at least and of dates on
\* the steps 1..N, the Bermudan price lies between the European price and
\* the American price.
C4_BetweenForEverySchedule ==
    (PricedBermudan /\ obj.exercise_dates # <<>> /\ DatesOnSteps(obj))
        => /\ RLe(EuropeanLattice.price, out.price)
           /\ RLe(out.price, AmericanPrice)

\* C4, amended: for every schedule the Bermudan price is at most the
\* American price, and for every schedule with a date at maturity it is at
\* least the European price.
C4_BetweenWhenMaturityIncluded ==
    PricedBermudan
        => /\ RLe(out.price, AmericanPrice)
           /\ IncludesMaturity(obj) => RLe(EuropeanLattice.price, out.price)

\* One early date and the maturity: the price lies strictly between.
C4_Witness ==
    /\ PricedBermudan
    /\ Len(obj.exercise_dates) = 2
    /\ IncludesMaturity(obj)
    /\ RLt(EuropeanLattice.price, out.price)
    /\ RLt(out.price, AmericanPrice)

PricedAmerican == last.op = "price" /\ obj.kind = "American" /\ out.st = "ok"

C5_WitnessPut ==
    /\ PricedAmerican
    /\ EuropeanLattice.st = "ok"
    /\ obj.option_type = "put"
    /\ RLt(EuropeanLattice.price, out.price)

C6_NoScheduleIsEuropean ==
    (PricedBermudan /\ obj.exercise_dates \in {<<>>, <<obj.expiry>>})
        => out = EuropeanLattice

\* The part of C6 the code satisfies: the schedule omitted.
C6_OmittedIsEuropean ==
    /\ PricedBermudan
    /\ obj.exercise_dates = Bermudan_init_dates(obj.expiry, [given |-> FALSE, dates |-> <<>>])
    /\ out = EuropeanLattice
    /\ RLt(Zero, out.price)

\* The price of the option just priced, with the other option type.
OtherType(ty) == IF ty = "call" THEN "put" ELSE "call"

OtherEuropean == black_scholes([obj EXCEPT !.option_type = OtherType(obj.option_type)], last.spot)

CallMinusPut ==
    IF obj.option_type = "call" THEN RSub(out.price, OtherEuropean.price)
    ELSE RSub(OtherEuropean.price, out.price)

PricedEuropean == last.op = "price" /\ obj.kind = "European" /\ out.st = "ok"

\* C7: put-call parity of the analytic prices:
\* call(S) - put(S) = S * exp(-q T) - K * exp(-r T).
C7_PutCallParity ==
    PricedEuropean
        => CallMinusPut =
              RSub(RMul(last.spot, Exp(RNeg(RMul(obj.dividend_yield, obj.expiry)))),
                   RMul(obj.strike, Exp(RNeg(RMul(obj.rate, obj.expiry)))))

\* A put priced away from the money with a dividend yield and a rate.
C7_Witness ==
    /\ PricedEuropean
    /\ obj.option_type = "put"
    /\ last.spot # obj.strike
    /\ RLt(Zero, obj.dividend_yield)
    /\ RLt(Zero, obj.rate)
    /\ RLt(Zero, out.price)

\* The result of AsianOption.price on object o and spot S0 in a process that
\* makes no other use of the generator.
AloneResult(o, S0) == asian_price(o, S0, 0, 0).res

PricedAsian == last.op = "price" /\ obj.kind = "Asian"

\* C8: a price call on an object with a seed returns the result fixed by the
\* seed, the configuration and the spot, whatever state the generator was in
\* when the call began; two such calls return the same pair.
C8_SeededCallsReproducible ==
    (PricedAsian /\ obj.seed # NoSeed) => out = AloneResult(obj, last.spot)

\* The second call on an object with a seed, after which the generator has
\* moved, has returned an estimate with a positive standard error.
C8_Witness ==
    /\ PricedAsian
    /\ obj.seed # NoSeed
    /\ last.calls = 2
    /\ out.st = "ok"
    /\ RLt(Zero, out.se)
    /\ rng # 0

\* C9: each of two concurrent calls, each with its own seed, returns what it
\* returns alone, under every interleaving of their seeding and drawing.
C9_ConcurrentCallsAsAlone ==
    \A t \in 1..2 :
        thr[t].pc = "done" => thr[t].res = AloneResult(thr[t].self, thr[t].spot)

\* C10: a price call leaves the fields of the object and the state of the
\* process-wide generator as they were.
C10_PriceLeavesStateUnchanged ==
    [][last'.calls = last.calls + 1 => (obj' = obj /\ rng' = rng)]_vars

\* The configurations AsianOption.price must reject.
AsianRejected(o) ==
    \/ RLe(o.expiry, Zero)
    \/ RLt(o.volatility, Zero)
    \/ o.num_steps <= 0
    \/ o.num_simulations <= 0

\* C11: a price call on an AsianOption with T <= 0, sigma < 0, num_steps <= 0
\* or num_simulations <= 0 raises an error, returns no pair and leaves the
\* generator as it was: neither seeded nor drawn from.
C11_InvalidAsianFailsBeforeSeeding ==
    [][(obj.kind = "Asian" /\ last'.calls = last.calls + 1 /\ AsianRejected(obj))
          => (out'.st \notin {"ok", "none"} /\ rng' = rng)]_vars

\* A first call on a seeded object whose expiry was set to a value <= 0, its
\* counts being positive: the call has raised and the generator is where it
\* started.
C11_Witness ==
    /\ PricedAsian
    /\ last.calls = 1
    /\ RLe(obj.expiry, Zero)
    /\ obj.num_steps >= 1
    /\ obj.num_simulations >= 1
    /\ obj.seed # NoSeed
    /\ out = Raise("ValueError")
    /\ rng = 5

\* The call of thread 1 has drawn its matrix, with antithetic sampling.
DrawnAntithetic == thr[1].pc \in {"drawn", "done"} /\ thr[1].self.antithetic

NegRow(row) == [j \in 1..Len(row) |-> RNeg(row[j])]

CeilHalf(m) == (m + 1) \div 2

\* C12 as stated: the matrix has m rows and the negation of every one of
\* the ceil(m/2) original rows is among them.
C12_EveryOriginalRowMirrored ==
    DrawnAntithetic
        => LET Z == thr[1].Z
               m == thr[1].self.num_simulations
           IN  /\ Len(Z) = m
               /\ \A i \in 1..CeilHalf(m) : \E k \in 1..m : Z[k] = NegRow(Z[i])

\* C12, amended: the matrix has m rows; the first ceil(m/2) are the only
\* rows drawn from the generator, and row ceil(m/2) + i is the negation of
\* row i for i = 1..m - ceil(m/2).  For odd m that leaves the last original
\* row without a mirrored row.
C12_MirroredUpToTruncation ==
    DrawnAntithetic
        => LET Z == thr[1].Z
               self == thr[1].self
               m == self.num_simulations
               n == self.num_steps
               h == CeilHalf(m)
               s0 == random_seed(self.seed, 0)
           IN  /\ Len(Z) = m
               /\ \A i \in 1..(m - h) : Z[h + i] = NegRow(Z[i])
               /\ self.seed # NoSeed
                     => /\ rng = rng_skip(s0, h * n)
                        /\ \A i \in 1..h : \A j \in 1..n :
                              Z[i][j] = rng_normal(rng_skip(s0, (i - 1) * n + j))

\* Three rows: the third mirrors the first, and the second, not all zero,
\* has no mirror among the three.
C12_Witness ==
    /\ DrawnAntithetic
    /\ thr[1].self.num_simulations = 3
    /\ Len(thr[1].Z) = 3
    /\ thr[1].Z[3] = NegRow(thr[1].Z[1])
    /\ thr[1].Z[1] # NegRow(thr[1].Z[1])
    /\ \A k \in 1..3 : thr[1].Z[k] # NegRow(thr[1].Z[2])

\* The call of thread 1 has returned, on an accepted configuration.
DoneCall == thr[1].pc = "done" /\ ~AsianRejected(thr[1].self)

\* The quantities of the specification, from the matrix of draws of thread 1:
\* the price of path i at monitoring date j, the average and the payoff of
\* path i, the discount factor, the estimate and the square of the standard
\* error.
PathPrice(i, j) ==
    LET self == thr[1].self
        dt == RDiv(self.expiry, RInt(self.num_steps))
        drift == RMul(RSub(RSub(self.rate, self.dividend_yield),
                           RDiv(RMul(self.volatility, self.volatility), RInt(2))), dt)
        steps == [k \in 1..j |->
                    RAdd(drift, RMul(RMul(self.volatility, Sqrt(dt)), thr[1].Z[i][k]))]
    IN  RMul(thr[1].spot, Exp(RSum(steps, j)))

PathAverage(i) ==
    LET n == thr[1].self.num_steps
        monitored == [j \in 1..n |-> PathPrice(i, j)]
    IN  IF thr[1].self.include_s0
        THEN RDiv(RAdd(RSum(monitored, n), thr[1].spot), RInt(n + 1))
        ELSE RDiv(RSum(monitored, n), RInt(n))

PayoffOn(x) ==
    IF thr[1].self.option_type = "call" THEN RMax(RSub(x, thr[1].self.strike), Zero)
    ELSE RMax(RSub(thr[1].self.strike, x), Zero)

Discount == Exp(RNeg(RMul(thr[1].self.rate, thr[1].self.expiry)))

MeanOf(xs) == RDiv(RSum(xs, Len(xs)), RInt(Len(xs)))

Estimate ==
    RMul(Discount, MeanOf([i \in 1..thr[1].self.num_simulations |-> PayoffOn(PathAverage(i))]))

StandardErrorSquared ==
    LET m == thr[1].self.num_simulations
        pay == [i \in 1..m |-> PayoffOn(PathAverage(i))]
        dev == [i \in 1..m |-> RMul(RSub(pay[i], MeanOf(pay)), RSub(pay[i], MeanOf(pay)))]
    IN  RDiv(RMul(RMul(Discount, Discount), RDiv(RSum(dev, m), RInt(m - 1))), RInt(m))

\* C13: on every accepted configuration, m = 1 included, the call returns a
\* pair whose standard error is a defined number: the Bessel-corrected
\* sample deviation of the payoffs, discounted, over sqrt(m) (the model
\* holds its square).
C13_StandardErrorDefined ==
    DoneCall
        => /\ thr[1].res.st = "ok"
           /\ ~IsNaN(thr[1].res.se)
           /\ thr[1].res.se = StandardErrorSquared

\* The part of C13 the code satisfies: with two payoffs or more that differ,
\* the standard error is the positive number of the formula.
C13_DefinedFromTwoPaths ==
    /\ DoneCall
    /\ thr[1].self.num_simulations >= 2
    /\ thr[1].res.st = "ok"
    /\ RLt(Zero, thr[1].res.se)
    /\ thr[1].res.se = StandardErrorSquared

\* C19: the estimate is built on the arithmetic mean of the n monitored
\* prices of each path, or on (their sum + spot) / (n + 1) when include_s0
\* is set; with n = 1 and the spot excluded each payoff is the European
\* payoff on the path's price at maturity.
C19_ArithmeticAverage ==
    DoneCall
        => /\ thr[1].res.st = "ok"
           /\ thr[1].res.price = Estimate
           /\ (thr[1].self.num_steps = 1 /\ ~thr[1].self.include_s0)
                 => thr[1].res.price =
                       RMul(Discount,
                            MeanOf([i \in 1..thr[1].self.num_simulations |->
                                       PayoffOn(PathPrice(i, 1))]))

\* Two monitoring dates and the spot in the average, which is neither the
\* spot nor the mean of the two monitored prices; the estimate is positive.
C19_Witness ==
    /\ DoneCall
    /\ thr[1].self.num_steps = 2
    /\ thr[1].self.include_s0
    /\ PathAverage(1) # thr[1].spot
    /\ PathAverage(1) # RDiv(RAdd(PathPrice(1, 1), PathPrice(1, 2)), RInt(2))
    /\ RLt(Zero, thr[1].res.price)
    /\ thr[1].res.price = Estimate

\* One monitoring date, the spot excluded: a positive estimate.
C19_WitnessEuropean ==
    /\ DoneCall
    /\ thr[1].self.num_steps = 1
    /\ ~thr[1].self.include_s0
    /\ RLt(Zero, thr[1].res.price)

\* C14: the terms of a constructed object keep their values through every
\* operation on it, direct assignment to a field included.
C14_TermsImmutable ==
    [][(obj.kind # "none" /\ obj'.kind # "none") => TermsOf(obj') = TermsOf(obj)]_vars

\* C15: no price call on an object whose option_type is neither 'call' nor
\* 'put' returns a price; each of the four pricers raises an error.
C15_InvalidTypeNeverPriced ==
    (last.op = "price" /\ obj.option_type \notin {"call", "put"})
        => out.st \notin {"ok", "none"}

\* The part of C15 the code satisfies: EuropeanOption.price raises
\* ValueError on an option_type that is neither.
C15_EuropeanRaises ==
    /\ last.op = "price"
    /\ obj.kind = "European"
    /\ obj.option_type \notin {"call", "put"}
    /\ out = Raise("ValueError")

\* The integer nearest to x, the even one of the two when x lies halfway.
NearestStep(x) ==
    LET dist(k) == IF RLe(RInt(k), x) THEN RSub(x, RInt(k)) ELSE RSub(RInt(k), x)
    IN  CHOOSE k \in (x[1] \div x[2] - 1)..(x[1] \div x[2] + 2) :
            \/ RLt(dist(k), Half)
            \/ dist(k) = Half /\ k % 2 = 0

\* The steps 1..N that the times of the schedule of o round to.
PermittedSteps(o) ==
    {NearestStep(RDiv(o.exercise_dates[idx], RDiv(o.expiry, RInt(o.steps)))) :
        idx \in 1..Len(o.exercise_dates)} \cap 1..o.steps

\* The schedule holding the times k * dt of the steps k of a set, in order.
ScheduleOf(o, steps) ==
    LET ks == SelectSeq([k \in 1..o.steps |-> k], LAMBDA k : k \in steps)
    IN  [idx \in 1..Len(ks) |-> RMul(RInt(ks[idx]), RDiv(o.expiry, RInt(o.steps)))]

NodePrice(i, j) ==
    LET u == Exp(RMul(obj.volatility, Sqrt(RDiv(obj.expiry, RInt(obj.steps)))))
    IN  RMul(last.spot, RDiv(RPow(u, i - j), RPow(u, j)))

\* The terminal layer the induction of the object just priced starts from.
TerminalLayer ==
    LET c == bermudan_params(obj)
        m == map_exercise_dates(obj.exercise_dates, c.dt, obj.steps, 1, {}, FALSE)
    IN  bermudan_terminal(obj, stock_lattice(c, last.spot, obj.steps),
                          m.allow_terminal_exercise)

\* C17: the terminal values are the intrinsic payoff of each node when a
\* time of the schedule rounds to N and zero otherwise, and a schedule
\* permitting no step at all gives the price 0.
C17_TerminalValues ==
    PricedBermudan
        => /\ \A j \in 0..obj.steps :
                TerminalLayer[j + 1] =
                    IF obj.steps \in PermittedSteps(obj)
                    THEN Intrinsic(obj, NodePrice(obj.steps, j))
                    ELSE Zero
           /\ PermittedSteps(obj) = {} => out.price = Zero

\* A put in the money with a schedule of one time that maps to no step: the
\* terminal layer is zero and so is the price.
C17_Witness ==
    /\ PricedBermudan
    /\ Len(obj.exercise_dates) = 1
    /\ PermittedSteps(obj) = {}
    /\ obj.option_type = "put"
    /\ RLt(last.spot, obj.strike)
    /\ \A j \in 0..obj.steps : TerminalLayer[j + 1] = Zero
    /\ out.price = Zero

\* A schedule with maturity: a terminal node with a positive payoff.
C17_WitnessMaturity ==
    /\ PricedBermudan
    /\ obj.steps \in PermittedSteps(obj)
    /\ \E j \in 0..obj.steps : RLt(Zero, TerminalLayer[j + 1])

\* The two-dimensional recurrence of the specification on the lattice of
\* the object just priced: the value of node j of step i, exercise being
\* permitted at the steps of allowed and, at maturity, if atMaturity.
RECURSIVE NodeValue(_, _, _, _)
NodeValue(i, j, allowed, atMaturity) ==
    IF i = obj.steps
    THEN IF atMaturity THEN Intrinsic(obj, NodePrice(i, j)) ELSE Zero
    ELSE LET p == RiskNeutralP(obj)
             discount == Exp(RNeg(RMul(obj.rate, RDiv(obj.expiry, RInt(obj.steps)))))
             continuation ==
                 RMul(discount,
                      RAdd(RMul(p, NodeValue(i + 1, j, allowed, atMaturity)),
                           RMul(RSub(One, p), NodeValue(i + 1, j + 1, allowed, atMaturity))))
         IN  IF i \in allowed
             THEN RMax(continuation, Intrinsic(obj, NodePrice(i, j)))
             ELSE continuation

\* C18: the induction in place over the one array of values returns the
\* value the two-dimensional recurrence gives node (0, 0), in
\* BermudanOption with the steps of the schedule and in AmericanOption with
\* every step.
C18_InPlaceIsRecurrence ==
    /\ PricedBermudan
          => out.price = NodeValue(0, 0, PermittedSteps(obj) \ {obj.steps},
                                   obj.steps \in PermittedSteps(obj))
    /\ PricedAmerican
          => out.price = NodeValue(0, 0, 0..(obj.steps - 1), TRUE)

\* Two steps with exercise at step 1, where the lower node is exercised and
\* the upper one is not.
C18_Witness ==
    /\ PricedBermudan
    /\ obj.steps = 2
    /\ PermittedSteps(obj) = {1, 2}
    /\ obj.option_type = "put"
    /\ NodeValue(1, 1, {1}, TRUE) = Intrinsic(obj, NodePrice(1, 1))
    /\ RLt(Intrinsic(obj, NodePrice(1, 0)), NodeValue(1, 0, {1}, TRUE))
    /\ RLt(Zero, out.price)
    /\ out.price = NodeValue(0, 0, {1}, TRUE)

\* The price, on the terms, step count and spot of the object just priced,
\* of the schedule permitting exactly a set of steps.
PriceWithSteps(steps) ==
    bermudan_binomial_tree([obj EXCEPT !.exercise_dates = ScheduleOf(obj, steps)],
                           last.spot).price

\* C20: a schedule permitting a subset of the steps another permits, the
\* maturity step counted, never prices higher: every subset of the steps of
\* the schedule just priced gives at most its price.
C20_MoreDatesNeverLower ==
    PricedBermudan
        => \A steps \in SUBSET PermittedSteps(obj) : RLe(PriceWithSteps(steps), out.price)

\* Maturity alone prices strictly below maturity with an early step.
C20_Witness ==
    /\ PricedBermudan
    /\ obj.steps \in PermittedSteps(obj)
    /\ PermittedSteps(obj) # {obj.steps}
    /\ RLt(Zero, PriceWithSteps({obj.steps}))
    /\ RLt(PriceWithSteps({obj.steps}), out.price)

\* The schedule of the object just priced rewritten without changing the
\* steps of 1..N its times round to: reversed, its first time repeated, a
\* second time rounding to the step of the first, a time rounding to step 0
\* and a time rounding to step N + 1 added, and the steps listed in order.
ScheduleVariants ==
    LET ds == obj.exercise_dates
        dt == RDiv(obj.expiry, RInt(obj.steps))
        first == IF ds = <<>> THEN <<>> ELSE <<ds[1]>>
        twin == IF ds = <<>> THEN <<>>
                ELSE <<RAdd(RMul(RInt(NearestStep(RDiv(ds[1], dt))), dt),
                            RDiv(dt, RInt(4)))>>
    IN  {[idx \in 1..Len(ds) |-> ds[Len(ds) + 1 - idx]],
         ds \o first,
         ds \o twin,
         ds \o <<Zero>>,
         <<RMul(RInt(obj.steps + 1), dt)>> \o ds,
         ScheduleOf(obj, PermittedSteps(obj))}

\* C21: the price depends on the schedule only through the set of steps of
\* 1..N its times round to: reordering the times, repeating one, giving two
\* that round to one step, or adding times that round to step 0 or beyond N
\* changes neither the steps nor the price, and raises no error.
C21_PriceDependsOnStepSet ==
    PricedBermudan
        => \A variant \in ScheduleVariants :
              LET other == [obj EXCEPT !.exercise_dates = variant]
              IN  /\ PermittedSteps(other) = PermittedSteps(obj)
                  /\ bermudan_binomial_tree(other, last.spot) = out

\* A schedule of two times out of order, the maturity before a time that
\* rounds to step 0, with a positive price that its variants share.
C21_Witness ==
    /\ PricedBermudan
    /\ Len(obj.exercise_dates) = 2
    /\ obj.exercise_dates[1] = obj.expiry
    /\ RLt(obj.exercise_dates[2], obj.exercise_dates[1])
    /\ PermittedSteps(obj) = {obj.steps}
    /\ RLt(Zero, out.price)
    /\ Cardinality(ScheduleVariants) >= 5
    /\ \A variant \in ScheduleVariants :
          bermudan_binomial_tree([obj EXCEPT !.exercise_dates = variant], last.spot) = out

\* The value array of the American lattice of the object just priced when the
\* pass over the given step has ended; step N is the terminal layer. Every
\* array the induction holds between two node updates has each of its
\* entries in one of these.
RECURSIVE AmericanArray(_)
AmericanArray(step) ==
    LET c == american_params(obj)
    IN  IF step >= obj.steps THEN american_terminal(obj, c, last.spot)
        ELSE american_inner(obj, c, last.spot, AmericanArray(step + 1), step, 0)

\* The same for the Bermudan lattice.
RECURSIVE BermudanArray(_)
BermudanArray(i) ==
    LET c == bermudan_params(obj)
        m == map_exercise_dates(obj.exercise_dates, c.dt, obj.steps, 1, {}, FALSE)
    IN  IF i >= obj.steps THEN TerminalLayer
        ELSE bermudan_inner(obj, c, stock_lattice(c, last.spot, obj.steps),
                            m.exercise_steps, BermudanArray(i + 1), i, 0)

PInUnitInterval == ~IsNaN(RiskNeutralP(obj)) /\ ~OutsideUnitInterval(RiskNeutralP(obj))

\* C22: with the risk-neutral probability in [0, 1], every entry of the
\* value array is at least zero once the terminal layer is set and after
\* every pass of the backward induction, in the American and the Bermudan
\* lattice, so the price is never negative; in the American lattice every
\* node value is also at least the intrinsic value at its node.
C22_ValuesNonNegative ==
    /\ PricedAmerican /\ PInUnitInterval
          => /\ \A step \in 0..obj.steps : \A k \in 1..(obj.steps + 1) :
                    RLe(Zero, AmericanArray(step)[k])
             /\ \A step \in 0..obj.steps : \A i \in 0..step :
                    RLe(Intrinsic(obj, american_ST(american_params(obj), last.spot, step, i)),
                        AmericanArray(step)[i + 1])
             /\ out.price = AmericanArray(0)[1]
             /\ RLe(Zero, out.price)
    /\ PricedBermudan /\ PInUnitInterval
          => /\ \A i \in 0..obj.steps : \A k \in 1..(obj.steps + 1) :
                    RLe(Zero, BermudanArray(i)[k])
             /\ out.price = BermudanArray(0)[1]
             /\ RLe(Zero, out.price)

\* A two-step Bermudan put with 0 < p < 1 whose terminal layer holds a
\* zero and a positive entry and whose price is positive.
C22_Witness ==
    /\ PricedBermudan /\ PInUnitInterval
    /\ obj.steps = 2
    /\ obj.option_type = "put"
    /\ RLt(Zero, RiskNeutralP(obj)) /\ RLt(RiskNeutralP(obj), One)
    /\ \E k \in 1..3 : BermudanArray(2)[k] = Zero
    /\ \E k \in 1..3 : RLt(Zero, BermudanArray(2)[k])
    /\ RLt(Zero, BermudanArray(1)[1]) \/ RLt(Zero, BermudanArray(1)[2])
    /\ RLt(Zero, out.price)

\* A two-step American put with 0 < p < 1 where one step-1 node is worth its
\* positive intrinsic value and the other is worth more than its own.
C22_WitnessAmerican ==
    /\ PricedAmerican /\ PInUnitInterval
    /\ obj.steps = 2
    /\ obj.option_type = "put"
    /\ RLt(Zero, RiskNeutralP(obj)) /\ RLt(RiskNeutralP(obj), One)
    /\ \E i \in 0..1 :
          LET x == Intrinsic(obj, american_ST(american_params(obj), last.spot, 1, i))
          IN  RLt(Zero, x) /\ AmericanArray(1)[i + 1] = x
    /\ \E i \in 0..1 :
          RLt(Intrinsic(obj, american_ST(american_params(obj), last.spot, 1, i)),
              AmericanArray(1)[i + 1])
    /\ RLt(Zero, out.price)

====
